---------------------------- MODULE Spec2Model ----------------------------
(***************************************************************************)
(* A model of the WeighIt service (weighit_api):                           *)
(*   - weigh/scale_backend.py : ScaleReading, DymoHIDScale                 *)
(*   - mock_scale.py          : MockScale                                  *)
(*   - weigh/logger_core.py   : log_entry, undo_last_entry, redo_last_entry*)
(*   - weigh/db.py            : the entries and undo_stack tables          *)
(*   - main.py                : the FastAPI endpoints that use them        *)
(*                                                                         *)
(* Conventions.                                                            *)
(*   Weights are integers in hundredths of the reported unit: the code's   *)
(*   weight_raw / 100.0 is the reading whose value is weight_raw here, and *)
(*   the simulated baseline 5.0 is 500.                                    *)
(*   Time is counted in ticks of 50 ms: time.sleep(0.1) is 2 ticks, the    *)
(*   device read timeout of 100 ms is 2 ticks, 0.5 s is 10 ticks.          *)
(*   Python's None is the record None; an Optional[ScaleReading] is None   *)
(*   or a ScaleReading record.                                             *)
(*   A call that may raise yields Raised or Ret(v).                        *)
(***************************************************************************)
EXTENDS Integers, Sequences, FiniteSets, TLC

VARIABLES
    hidEnv,     \* the machine the scale is constructed on: hid library, devices
    scale,      \* the scale object (main.py's global), None before startup
    ctor,       \* outcome of the constructor call: NotCalled, Raised or Ret(obj)
    hidData,    \* outcome of the last device read issued by get_latest
    polled,     \* outcome of the last get_latest call: NotCalled, Raised or Ret(r)
    now,        \* time.time(), in ticks
    req,        \* the HTTP requests received, in order: endpoint, handler
                \* position, locals of the call in progress, response
    closing,    \* close() calls made on the scale, device.close() calls they
                \* made on the handle, outcome of the last close()
    entries,    \* rows of the entries table, in insertion order
    undo_stack, \* rows of the undo_stack table, in insertion order
    opResult,   \* the last logger_core call: its name, the tables before it,
                \* what it returned and the endpoint's status
    run         \* history of the calls: the current run of consecutive undos
                \* then redos (ids returned, tables before each undo), and
                \* whether an entry was logged with no undo since

vars ==
    <<hidEnv, scale, ctor, hidData, polled, now, req, closing, entries,
      undo_stack, opResult, run>>

\* The tables of the store and the record of the calls made on it.
storeVars == <<entries, undo_stack, opResult, run>>

---------------------------------------------------------------------------
(* Values *)

None == [kind |-> "None"]

NotCalled == [kind |-> "NotCalled"]

Raised == [kind |-> "call", exc |-> TRUE]

Ret(v) == [kind |-> "call", exc |-> FALSE, val |-> v]

ScaleReading(value, unit, is_stable) ==
    [kind |-> "ScaleReading", value |-> value, unit |-> unit, is_stable |-> is_stable]

\* Python truthiness of an Optional[ScaleReading]: an object without __bool__
\* or __len__ is true, None is false.
Truthy(x) == x /= None

\* No close() call made yet.
NotClosed == [calls |-> 0, device_closes |-> 0, last |-> NotCalled]

\* No run of undos in progress.
NoRun == [undone |-> <<>>, redone |-> <<>>, snaps |-> <<>>, since_log |-> FALSE]

\* The database as init_database leaves it, and no logger_core call made.
EmptyStore ==
    /\ entries = <<>>
    /\ undo_stack = <<>>
    /\ opResult = NotCalled
    /\ run = NoRun

---------------------------------------------------------------------------
(* DymoHIDScale._get_hid_reading *)

\* read(6, ...): at most 6 bytes are requested.
ReadLen == 6

\* len(data) < 5
MinLen == 5

\* unit codes of byte 4
UnitCodeLb == 11

UnitCodeOz == 12

\* time.sleep(0.1), in ticks
PollInterval == 2

\* read(6, timeout_ms=100), in ticks
ReadTimeout == 2

\* MockScale.read_stable_weight: time.sleep(min(0.5, timeout_s)), in ticks
MockSleepCap == 10

\* base_weight = 5.0, in hundredths
MockBaseWeight == 500

\* Bytes the model feeds at each offset of a report (each in 0..255).
Byte0Samples == {0, 3}

StatusSamples == {0, 2, 4, 5, 6, 251, 255}

LowSamples == {0, 100, 232, 255}

HighSamples == {0, 3, 255}

UnitSamples == {0, 2, 11, 12, 255}

Byte5Samples == {0, 255}

\* Every report of 0..ReadLen bytes over the samples.
FullReports ==
    { <<b0, b1, b2, b3, b4, b5>> :
        b0 \in Byte0Samples, b1 \in StatusSamples, b2 \in LowSamples,
        b3 \in HighSamples, b4 \in UnitSamples, b5 \in Byte5Samples }

Reports == { SubSeq(s, 1, n) : s \in FullReports, n \in 0..ReadLen }

\* What self._hid_device.read(6, timeout_ms=100) can do: raise an I/O error,
\* return None, or return a list of 0..6 bytes.
ReadRaises == [kind |-> "raise"]

ReadNone == [kind |-> "none"]

ReadData(bytes) == [kind |-> "data", bytes |-> bytes]

NoRead == [kind |-> "no read"]

DeviceOutcomes == {ReadRaises, ReadNone} \cup { ReadData(s) : s \in Reports }

\* Variant: the status byte compared with 0x04 instead of masked.
StableBitOnlyFlag(status) == status = 4

\* (status & 0x04) != 0
StableBit(status) == (status \div 4) % 2 = 1

\* data[2] + (data[3] << 8); data[k] of the code is bytes[k+1] here.
WeightRaw(bytes) == bytes[3] + bytes[4] * 256

UnitOf(unit_code) ==
    IF unit_code = UnitCodeLb THEN "lb"
    ELSE IF unit_code = UnitCodeOz THEN "oz" ELSE "kg"

\* The error sentinel ScaleReading(0.0, "lb", False).
Sentinel == ScaleReading(0, "lb", FALSE)

\* The body of the try block of _get_hid_reading: the device read and the parse.
\* A device handle of None makes the attribute access raise.
HidReadingBody(device, out) ==
    IF device = None \/ out.kind = "raise" THEN Raised
    ELSE IF out.kind = "none" \/ Len(out.bytes) = 0 \/ Len(out.bytes) < MinLen
         THEN Ret(Sentinel)
    ELSE Ret(ScaleReading(WeightRaw(out.bytes), UnitOf(out.bytes[5]),
                          StableBit(out.bytes[2])))

\* Variant: no except clause, the exception propagates.
get_hid_reading_uncaught(device, out) == HidReadingBody(device, out)

\* _get_hid_reading: the try block, and except Exception -> the sentinel.
get_hid_reading(device, out) ==
    LET body == HidReadingBody(device, out)
    IN  IF body.exc THEN Ret(Sentinel) ELSE body

\* Noise the simulated source adds to an unstable reading:
\* random.uniform(-0.2, 0.2) rounded to 2 decimals, in hundredths.
NoiseSamples == {-20, -7, 0, 20}

\* _get_mock_reading (and MockScale.get_latest, the same code): is_stable is
\* random.random() > 0.1, either outcome possible.
get_mock_reading(base_weight, stable, noise) ==
    Ret(ScaleReading(IF stable THEN base_weight ELSE base_weight + noise,
                     "lb", stable))

---------------------------------------------------------------------------
(* DymoHIDScale.__init__, _init_hid_device, _init_mock *)

\* DYMO_PRODUCT_IDS = [0x8003, 0x8004, 0x8007]
DYMO_PRODUCT_IDS == <<32771, 32772, 32775>>

Device(product_id) == [kind |-> "device", product_id |-> product_id]

\* What the three statements of one loop iteration can do for a product id:
\* hid.device() raises, open raises, set_nonblocking raises, or all succeed.
OpenOutcomes == {"ok", "device_raises", "open_raises", "nonblocking_raises"}

\* The machine at startup: USE_MOCK_SCALE=true or not, the hid library
\* importable or not, and what opening each product id does.
HidEnvs ==
    [use_mock_scale : BOOLEAN, lib : BOOLEAN,
     open : [1..Len(DYMO_PRODUCT_IDS) -> OpenOutcomes]]

RECURSIVE TryProductsFrom(_, _)
TryProductsFrom(env, i) ==
    IF i > Len(DYMO_PRODUCT_IDS) THEN None
    ELSE IF env.open[i] = "ok" THEN Device(DYMO_PRODUCT_IDS[i])
    ELSE TryProductsFrom(env, i + 1)

\* Variant: the product ids tried from the last to the first.
RECURSIVE TryProductsLastFrom(_, _)
TryProductsLastFrom(env, i) ==
    IF i < 1 THEN None
    ELSE IF env.open[i] = "ok" THEN Device(DYMO_PRODUCT_IDS[i])
    ELSE TryProductsLastFrom(env, i - 1)

init_hid_device_last(env) == TryProductsLastFrom(env, Len(DYMO_PRODUCT_IDS))

\* _init_hid_device: the first product id whose three statements succeed.
init_hid_device(env) == TryProductsFrom(env, 1)

\* _init_mock
init_mock(self) == [self EXCEPT !.is_mock = TRUE, !.base_weight = MockBaseWeight]

\* The fields set before the try block of __init__.
FreshDymo ==
    [cls |-> "DymoHIDScale", is_mock |-> FALSE, base_weight |-> 0, hid_device |-> None]

\* The try block of __init__: import hid raises ImportError without the library.
DymoInitBody(env) ==
    IF ~env.lib THEN Raised
    ELSE LET device == init_hid_device(env)
             self == [FreshDymo EXCEPT !.hid_device = device]
         IN  IF Truthy(device) THEN Ret([self EXCEPT !.is_mock = FALSE])
             ELSE Ret(init_mock(self))

\* DymoHIDScale(): the try block, and except (ImportError, Exception) -> mock.
DymoHIDScale(env) ==
    LET body == DymoInitBody(env)
    IN  IF body.exc THEN Ret(init_mock(FreshDymo)) ELSE body

\* MockScale(): base_weight = 5.0 (last_update is never read).
MockScale == [cls |-> "MockScale", base_weight |-> MockBaseWeight]

\* get_latest of either class, given what the device and the random draws do.
get_latest(self, out, stable, noise) ==
    IF self.cls = "MockScale" THEN get_mock_reading(self.base_weight, stable, noise)
    ELSE IF self.is_mock THEN get_mock_reading(self.base_weight, stable, noise)
    ELSE get_hid_reading(self.hid_device, out)

\* Whether a poll of this object reads the device.
ReadsDevice(self) == self.cls = "DymoHIDScale" /\ ~self.is_mock

\* main.py startup_event: the constructor call made and the global it leaves.
startup_event(env) ==
    IF env.use_mock_scale THEN [ctor |-> Ret(MockScale), scale |-> MockScale]
    ELSE LET c == DymoHIDScale(env)
         IN  [ctor |-> c, scale |-> IF c.exc THEN None ELSE c.val]

---------------------------------------------------------------------------
(* The life of one scale object: construction at startup, then polls. *)

NoRequests == <<>>

ScaleInit ==
    /\ hidEnv \in HidEnvs
    /\ scale = None
    /\ ctor = NotCalled
    /\ hidData = NoRead
    /\ polled = NotCalled
    /\ now = 0
    /\ req = NoRequests
    /\ closing = NotClosed
    /\ EmptyStore

Startup ==
    /\ ctor = NotCalled
    /\ ctor' = startup_event(hidEnv).ctor
    /\ scale' = startup_event(hidEnv).scale
    /\ UNCHANGED <<storeVars, closing, hidEnv, hidData, polled, now, req>>

\* Device reads the stateful specifications draw from: an I/O error, nothing,
\* an empty and a short report, a stable report and two unstable ones.
CommonOutcomes ==
    { ReadRaises, ReadNone, ReadData(<<>>), ReadData(<<3, 4, 100>>),
      ReadData(<<3, 4, 100, 0, 11, 0>>),
      ReadData(<<3, 2, 120, 0, 11, 0>>),
      ReadData(<<3, 0, 232, 3, 12>>) }

\* scale.get_latest() on the hardware variant: one device read, decoded.
PollHardware(outcomes) ==
    /\ ctor /= NotCalled
    /\ Truthy(scale)
    /\ ReadsDevice(scale)
    /\ \E out \in outcomes :
         /\ hidData' = out
         /\ polled' = get_latest(scale, out, FALSE, 0)
    /\ UNCHANGED <<storeVars, closing, hidEnv, scale, ctor, now, req>>

\* scale.get_latest() on a simulated source: no device read.
PollSimulated ==
    /\ ctor /= NotCalled
    /\ Truthy(scale)
    /\ ~ReadsDevice(scale)
    /\ \E stable \in BOOLEAN, noise \in NoiseSamples :
         polled' = get_latest(scale, NoRead, stable, noise)
    /\ hidData' = NoRead
    /\ UNCHANGED <<storeVars, closing, hidEnv, scale, ctor, now, req>>

\* close() calls the model makes on one scale object.
MaxCloses == 2

\* DymoHIDScale.close / MockScale.close: whether device.close() is called, and
\* the outcome of close() itself; an error of device.close() is swallowed by
\* the bare except.  No attribute is assigned: _hid_device keeps the handle.
close(self, deviceRaises) ==
    IF self.cls = "MockScale" THEN [device_called |-> FALSE, result |-> Ret(None)]
    ELSE IF Truthy(self.hid_device)
         THEN LET device_close == IF deviceRaises THEN Raised ELSE Ret(None)
              IN  [device_called |-> TRUE,
                   result |-> IF device_close.exc THEN Ret(None) ELSE device_close]
         ELSE [device_called |-> FALSE, result |-> Ret(None)]

\* scale.close(), as shutdown_event calls it (if scale: scale.close()).
Close ==
    /\ ctor /= NotCalled
    /\ Truthy(scale)
    /\ closing.calls < MaxCloses
    /\ \E deviceRaises \in BOOLEAN :
         LET c == close(scale, deviceRaises)
         IN  closing' = [calls |-> closing.calls + 1,
                         device_closes |-> closing.device_closes
                                           + (IF c.device_called THEN 1 ELSE 0),
                         last |-> c.result]
    /\ UNCHANGED <<storeVars, hidEnv, scale, ctor, hidData, polled, now, req>>

ScaleNext == Startup \/ PollHardware(CommonOutcomes) \/ PollSimulated \/ Close

SpecScale == ScaleInit /\ [][ScaleNext]_vars

---------------------------------------------------------------------------
(* The decode of one device read, over every sampled report.  The scale is *)
(* a hardware object as startup leaves it, one per product id; the device  *)
(* read about to be decoded is drawn at the start.                         *)

DecodeEnvs ==
    { e \in HidEnvs :
        /\ ~e.use_mock_scale
        /\ e.lib
        /\ e.open \in { <<"ok", "ok", "ok">>,
                        <<"open_raises", "ok", "ok">>,
                        <<"device_raises", "nonblocking_raises", "ok">> } }

DecodeInit ==
    /\ hidEnv \in DecodeEnvs
    /\ scale = startup_event(hidEnv).scale
    /\ ctor = startup_event(hidEnv).ctor
    /\ hidData \in DeviceOutcomes
    /\ polled = NotCalled
    /\ now = 0
    /\ req = NoRequests
    /\ closing = NotClosed
    /\ EmptyStore

DecodeNext == polled = NotCalled /\ PollHardware({hidData})

SpecDecode == DecodeInit /\ [][DecodeNext]_vars

---------------------------------------------------------------------------
(* Claims about one scale object *)

HardwarePolled ==
    /\ Truthy(scale)
    /\ ReadsDevice(scale)
    /\ polled /= NotCalled

ShortOrFailedRead ==
    \/ hidData.kind \in {"raise", "none"}
    \/ hidData.kind = "data" /\ Len(hidData.bytes) < 5

\* C5: a hardware poll never raises; a device read that raises, returns
\* nothing or returns fewer than 5 bytes yields the sentinel reading
\* (0, "lb", not stable); and the poll leaves the scale object as it was.
C5_PollNeverRaises ==
    /\ [](HardwarePolled =>
            /\ ~polled.exc
            /\ ShortOrFailedRead =>
                 polled.val = [kind |-> "ScaleReading", value |-> 0,
                               unit |-> "lb", is_stable |-> FALSE])
    /\ [][PollHardware(DeviceOutcomes) => scale' = scale]_vars

C5_Witness ==
    /\ HardwarePolled
    /\ hidData = ReadRaises
    /\ polled = Ret(Sentinel)

\* C6: a report of at least 5 bytes decodes to byte2 + 256*byte3 hundredths,
\* stable exactly when bit 0x04 of byte1 is set, unit lb for byte4 = 11, oz
\* for 12, kg otherwise; bytes 0 and 5 take no part.
C6_Decode ==
    (HardwarePolled /\ hidData.kind = "data" /\ Len(hidData.bytes) >= 5) =>
        LET b == hidData.bytes
        IN  /\ ~polled.exc
            /\ polled.val.value = b[3] + 256 * b[4]
            /\ polled.val.is_stable = ((b[2] % 8) >= 4)
            /\ polled.val.unit = CASE b[5] = 11 -> "lb"
                                   [] b[5] = 12 -> "oz"
                                   [] OTHER -> "kg"

C6_Witness ==
    /\ HardwarePolled
    /\ hidData = ReadData(<<3, 6, 232, 3, 12>>)
    /\ polled = Ret(ScaleReading(1000, "oz", TRUE))

OkProducts == { i \in 1..Len(DYMO_PRODUCT_IDS) : hidEnv.open[i] = "ok" }

FirstOk == CHOOSE i \in OkProducts : \A j \in OkProducts : i <= j

WellFormed(r) ==
    /\ r.kind = "ScaleReading"
    /\ r.value \in Int
    /\ r.unit \in {"lb", "oz", "kg"}
    /\ r.is_stable \in BOOLEAN

\* C7: DymoHIDScale() never raises; the object is the hardware variant on the
\* first of 0x8003, 0x8004, 0x8007 whose open and set_nonblocking succeed, and
\* the simulated variant (is_mock, no handle, baseline 5.0) exactly when the
\* library is missing or no candidate opens; a simulated poll never raises
\* and returns a well-formed reading.
C7_Construction ==
    (ctor /= NotCalled /\ ~hidEnv.use_mock_scale) =>
        /\ ~ctor.exc
        /\ scale = ctor.val
        /\ scale.cls = "DymoHIDScale"
        /\ DYMO_PRODUCT_IDS = <<32771, 32772, 32775>>
        /\ scale.is_mock <=> (~hidEnv.lib \/ OkProducts = {})
        /\ scale.is_mock => scale.hid_device = None /\ scale.base_weight = 500
        /\ ~scale.is_mock =>
              scale.hid_device = Device(DYMO_PRODUCT_IDS[FirstOk])
        /\ (scale.is_mock /\ polled /= NotCalled) =>
              ~polled.exc /\ WellFormed(polled.val)

C7_Witness ==
    /\ ctor /= NotCalled
    /\ ~hidEnv.use_mock_scale
    /\ hidEnv.lib
    /\ hidEnv.open = <<"open_raises", "nonblocking_raises", "device_raises">>
    /\ scale.is_mock
    /\ polled /= NotCalled

\* C11 as claimed: close() never raises and leaves the scale object as it
\* was, and however many times it is called the device handle is released
\* (device.close() called) at most once.
C11_ReleasedOnce ==
    (closing.calls > 0) =>
        /\ ~closing.last.exc
        /\ scale = startup_event(hidEnv).scale
        /\ closing.device_closes <= 1

---------------------------------------------------------------------------
(* The service: main.py's endpoints on uvicorn's event loop. *)

\* Requests the model lets arrive.
MaxRequests == 2

\* Largest ?timeout= of a stable-read request, in ticks.
MaxTimeout == 3

Timeouts == {0, 1, MaxTimeout}

Min(a, b) == IF a < b THEN a ELSE b

NewRequest(endpoint, timeout) ==
    [endpoint |-> endpoint, timeout |-> timeout, pc |-> "pending",
     start_time |-> 0, last_reading |-> None, reading |-> None,
     polls |-> 0, sleeps |-> 0, exit |-> "none",
     returned |-> NotCalled, returned_at |-> 0, response |-> NotCalled]

\* Positions inside a handler: the handler has started and not yet answered.
HandlerPositions ==
    {"rsw_loop", "rsw_read", "rsw_sleep", "mock_sleep", "gl_read", "totals_query"}

\* Variant: handlers run on worker threads, started whatever else runs.
LoopFreeThreaded == TRUE

\* Every endpoint is an "async def" whose body awaits nothing and calls the
\* scale or the database synchronously: uvicorn's single event loop runs one
\* handler from start to answer before it starts the next.
LoopFree == \A q \in DOMAIN req : req[q].pc \notin HandlerPositions

\* Variant: no early return.
ShortCircuitNever(reading) == FALSE

\* if reading and reading.is_stable
ShortCircuit(reading) == Truthy(reading) /\ reading.is_stable

\* Variant: only the first reading is remembered.
AssignLastKeepFirst(last_reading, reading) ==
    IF last_reading = None THEN reading ELSE last_reading

\* last_reading = reading
AssignLast(last_reading, reading) == reading

\* Variant: <= in place of <.
LoopConditionInclusive(t, start_time, timeout_s) == t - start_time <= timeout_s

\* while time.time() - start_time < timeout_s
LoopCondition(t, start_time, timeout_s) == t - start_time < timeout_s

\* How long one get_latest() can take: the hardware read returns at once when
\* a report is waiting and otherwise within its timeout; the simulated
\* reading is computed at once.
ReadDurations(self) == IF ReadsDevice(self) THEN 0..ReadTimeout ELSE {0}

\* The results one get_latest() call on the object can give.
PollResults(self) ==
    IF ReadsDevice(self)
    THEN { get_latest(self, out, FALSE, 0) : out \in CommonOutcomes }
    ELSE { get_latest(self, NoRead, stable, noise) :
             stable \in BOOLEAN, noise \in NoiseSamples }

\* Variant: a missing result answered like GET /scale/reading answers it.
StableResponseZero(reading) ==
    IF ~Truthy(reading)
    THEN [status |-> 200, value |-> 0, unit |-> "lb", is_stable |-> FALSE]
    ELSE [status |-> 200, value |-> reading.value, unit |-> reading.unit,
          is_stable |-> reading.is_stable]

\* get_stable_reading after read_stable_weight has returned: 408 for a falsy
\* result, else the reading's fields.
StableResponse(reading) ==
    IF ~Truthy(reading)
    THEN [status |-> 408, detail |-> "Timeout waiting for stable reading"]
    ELSE [status |-> 200, value |-> reading.value, unit |-> reading.unit,
          is_stable |-> reading.is_stable]

\* The request as read_stable_weight returns value and the endpoint answers.
Returned(rq, value, exit, t) ==
    [rq EXCEPT !.pc = "done", !.exit = exit, !.returned = Ret(value),
               !.returned_at = t, !.response = StableResponse(value)]

\* Startups the service is run on: real hardware on the first product id,
\* the fallback without the hid library, and USE_MOCK_SCALE=true.
ServiceEnvs ==
    { e \in HidEnvs :
        /\ e.open = <<"ok", "ok", "ok">>
        /\ e.use_mock_scale => e.lib }

\* The module global as main.py declares it, "scale = None", which is what
\* the handlers see when the app is served without its startup hook having
\* run (lifespan off, or a test client used outside its context manager).
NotStarted == [scale |-> None, ctor |-> NotCalled]

Init ==
    /\ hidEnv \in ServiceEnvs
    /\ \E s \in {startup_event(hidEnv), NotStarted} :
         /\ scale = s.scale
         /\ ctor = s.ctor
    /\ hidData = NoRead
    /\ polled = NotCalled
    /\ now = 0
    /\ req = NoRequests
    /\ closing = NotClosed
    /\ EmptyStore

\* An HTTP request reaches the server.
Arrive ==
    /\ Len(req) < MaxRequests
    /\ \E rq \in { NewRequest("/scale/stable", t) : t \in Timeouts }
                 \cup { NewRequest("/scale/reading", 0),
                        NewRequest("/totals/today", 0) } :
         req' = Append(req, rq)
    /\ UNCHANGED <<storeVars, closing, hidEnv, scale, ctor, hidData, polled, now>>

\* GET /scale/stable starts: 503 without a scale, else read_stable_weight is
\* entered (start_time = time.time(), last_reading = None; MockScale sleeps).
StableStart(r) ==
    /\ req[r].pc = "pending"
    /\ req[r].endpoint = "/scale/stable"
    /\ LoopFree
    /\ req' = [req EXCEPT ![r] =
         IF ~Truthy(scale)
         THEN [@ EXCEPT !.pc = "done",
                        !.response = [status |-> 503, detail |-> "Scale not available"]]
         ELSE IF scale.cls = "MockScale"
         THEN [@ EXCEPT !.pc = "mock_sleep", !.start_time = now]
         ELSE [@ EXCEPT !.pc = "rsw_loop", !.start_time = now,
                        !.last_reading = None]]
    /\ UNCHANGED <<storeVars, closing, hidEnv, scale, ctor, hidData, polled, now>>

\* The while condition; when it fails, return last_reading.
RswLoop(r) ==
    /\ req[r].pc = "rsw_loop"
    /\ req' = [req EXCEPT ![r] =
         IF LoopCondition(now, @.start_time, @.timeout)
         THEN [@ EXCEPT !.pc = "rsw_read"]
         ELSE Returned(@, @.last_reading, "timeout", now)]
    /\ UNCHANGED <<storeVars, closing, hidEnv, scale, ctor, hidData, polled, now>>

\* reading = self.get_latest(); return it if stable, else remember it.
RswRead(r) ==
    /\ req[r].pc = "rsw_read"
    /\ \E res \in PollResults(scale), d \in ReadDurations(scale) :
         /\ now' = now + d
         /\ req' = [req EXCEPT ![r] =
              LET polledRq == [@ EXCEPT !.reading = res.val, !.polls = @ + 1]
              IN  IF ShortCircuit(res.val)
                  THEN Returned(polledRq, res.val, "stable", now + d)
                  ELSE [polledRq EXCEPT
                          !.last_reading = AssignLast(@, res.val),
                          !.pc = "rsw_sleep"]]
    /\ UNCHANGED <<storeVars, closing, hidEnv, scale, ctor, hidData, polled>>

\* time.sleep(0.1)
RswSleep(r) ==
    /\ req[r].pc = "rsw_sleep"
    /\ now' = now + PollInterval
    /\ req' = [req EXCEPT ![r] = [@ EXCEPT !.sleeps = @ + 1, !.pc = "rsw_loop"]]
    /\ UNCHANGED <<storeVars, closing, hidEnv, scale, ctor, hidData, polled>>

\* MockScale.read_stable_weight: time.sleep(min(0.5, timeout_s)), then the
\* baseline as a stable reading.
MockStableReturn(r) ==
    /\ req[r].pc = "mock_sleep"
    /\ now' = now + Min(MockSleepCap, req[r].timeout)
    /\ req' = [req EXCEPT ![r] =
         Returned(@, ScaleReading(scale.base_weight, "lb", TRUE), "mock",
                  now + Min(MockSleepCap, @.timeout))]
    /\ UNCHANGED <<storeVars, closing, hidEnv, scale, ctor, hidData, polled>>

\* GET /scale/reading starts: "not available" without a scale, else
\* scale.get_latest() is called.
ReadingStart(r) ==
    /\ req[r].pc = "pending"
    /\ req[r].endpoint = "/scale/reading"
    /\ LoopFree
    /\ req' = [req EXCEPT ![r] =
         IF ~Truthy(scale)
         THEN [@ EXCEPT !.pc = "done",
                        !.response = [status |-> 200, value |-> 0, unit |-> "lb",
                                      is_stable |-> FALSE, available |-> FALSE]]
         ELSE [@ EXCEPT !.pc = "gl_read", !.start_time = now]]
    /\ UNCHANGED <<storeVars, closing, hidEnv, scale, ctor, hidData, polled, now>>

\* scale.get_latest() returns and GET /scale/reading answers.
ReadingFinish(r) ==
    /\ req[r].pc = "gl_read"
    /\ \E res \in PollResults(scale), d \in ReadDurations(scale) :
         /\ now' = now + d
         /\ req' = [req EXCEPT ![r] =
              [@ EXCEPT !.pc = "done", !.polls = @ + 1,
                        !.reading = IF res.exc THEN None ELSE res.val,
                        !.returned_at = now + d,
                        !.response =
                           IF res.exc \/ ~Truthy(res.val)
                           THEN [status |-> 200, value |-> 0, unit |-> "lb",
                                 is_stable |-> FALSE, available |-> FALSE]
                           ELSE [status |-> 200, value |-> res.val.value,
                                 unit |-> res.val.unit,
                                 is_stable |-> res.val.is_stable,
                                 available |-> TRUE]]]
    /\ UNCHANGED <<storeVars, closing, hidEnv, scale, ctor, hidData, polled>>

\* GET /totals/today starts its database query.
TotalsStart(r) ==
    /\ req[r].pc = "pending"
    /\ req[r].endpoint = "/totals/today"
    /\ LoopFree
    /\ req' = [req EXCEPT ![r] = [@ EXCEPT !.pc = "totals_query", !.start_time = now]]
    /\ UNCHANGED <<storeVars, closing, hidEnv, scale, ctor, hidData, polled, now>>

\* GET /totals/today answers.
TotalsFinish(r) ==
    /\ req[r].pc = "totals_query"
    /\ req' = [req EXCEPT ![r] =
         [@ EXCEPT !.pc = "done", !.returned_at = now,
                   !.response = [status |-> 200, body |-> "totals"]]]
    /\ UNCHANGED <<storeVars, closing, hidEnv, scale, ctor, hidData, polled, now>>

Next ==
    \/ Arrive
    \/ \E r \in DOMAIN req : StableStart(r)
    \/ \E r \in DOMAIN req : RswLoop(r)
    \/ \E r \in DOMAIN req : RswRead(r)
    \/ \E r \in DOMAIN req : RswSleep(r)
    \/ \E r \in DOMAIN req : MockStableReturn(r)
    \/ \E r \in DOMAIN req : ReadingStart(r)
    \/ \E r \in DOMAIN req : ReadingFinish(r)
    \/ \E r \in DOMAIN req : TotalsStart(r)
    \/ \E r \in DOMAIN req : TotalsFinish(r)

Spec == Init /\ [][Next]_vars

---------------------------------------------------------------------------
(* Claims about the stable read and the service, under Spec *)

\* Requests of GET /scale/stable served by DymoHIDScale.read_stable_weight.
DymoStable ==
    { r \in DOMAIN req :
        /\ req[r].endpoint = "/scale/stable"
        /\ Truthy(scale)
        /\ scale.cls = "DymoHIDScale" }

\* Requests of GET /scale/stable, whatever the scale.
AnyStable == { r \in DOMAIN req : req[r].endpoint = "/scale/stable" }

\* C1: in read_stable_weight, once a poll returns a stable reading the call
\* has returned that very reading, having slept only between polls (one
\* sleep fewer than polls: none when the first poll is stable), and a call
\* that has returned polls and sleeps no more.
C1_StableShortCircuit ==
    /\ [](\A r \in DymoStable :
            (req[r].polls > 0 /\ req[r].reading.is_stable) =>
                /\ req[r].pc = "done"
                /\ req[r].exit = "stable"
                /\ req[r].returned = Ret(req[r].reading)
                /\ req[r].sleeps = req[r].polls - 1)
    /\ [][\A r \in DymoStable :
            req[r].pc = "done" => req'[r] = req[r]]_vars

C1_Witness ==
    \E r \in DymoStable :
        /\ ReadsDevice(scale)
        /\ req[r].timeout > 0
        /\ req[r].pc = "done"
        /\ req[r].polls = 1
        /\ req[r].sleeps = 0
        /\ req[r].returned = Ret(ScaleReading(100, "lb", TRUE))

Elapsed(r) == req[r].returned_at - req[r].start_time

\* C3 as claimed: a read_stable_weight(T) that never sees a stable reading
\* returns within T plus one poll interval, hardware source included.
C3_WithinOnePollInterval ==
    \A r \in DymoStable :
        (req[r].pc = "done" /\ req[r].exit = "timeout") =>
            Elapsed(r) <= req[r].timeout + PollInterval

\* C3 as amended: it returns in less than T plus one poll interval plus the
\* time one poll can take, which is the 100 ms device read timeout on the
\* hardware source and nothing on the simulated one.
C3_WithinIntervalPlusRead ==
    \A r \in DymoStable :
        (req[r].pc = "done" /\ req[r].exit = "timeout") =>
            /\ Elapsed(r) < req[r].timeout + PollInterval
                             + (IF ReadsDevice(scale) THEN ReadTimeout ELSE 0)
            /\ req[r].timeout = 0 => Elapsed(r) = 0

C3_Witness ==
    \E r \in DymoStable :
        /\ ReadsDevice(scale)
        /\ req[r].pc = "done"
        /\ req[r].exit = "timeout"
        /\ req[r].timeout > 0
        /\ Elapsed(r) = req[r].timeout + PollInterval + ReadTimeout - 1

\* C4 as claimed: a stable read that times out without any stable poll
\* returns None, and GET /scale/stable answers 408, never a reading.
C4_TimeoutIsNone ==
    \A r \in DymoStable :
        (req[r].pc = "done" /\ req[r].exit = "timeout") =>
            /\ req[r].returned = Ret(None)
            /\ req[r].response.status = 408

\* C8 as claimed: whichever source is active, the stable read returns the
\* first stable poll, else the last poll observed, else None when it polled
\* nothing.
C8_SourceAgnostic ==
    \A r \in AnyStable :
        (req[r].pc = "done" /\ Truthy(scale)) =>
            req[r].returned =
                Ret(IF req[r].polls = 0 THEN None ELSE req[r].reading)

\* Requests whose scale call is in flight against the hardware handle.
InFlightOnHandle ==
    { r \in DOMAIN req :
        /\ Truthy(scale)
        /\ ReadsDevice(scale)
        /\ req[r].pc \in {"rsw_loop", "rsw_read", "rsw_sleep", "gl_read"} }

\* C9: at most one get_latest / read_stable_weight call is in flight against
\* the hardware handle at any time.
C9_OneInFlight == Cardinality(InFlightOnHandle) <= 1

C9_Witness ==
    \E r, q \in DOMAIN req :
        /\ r \in InFlightOnHandle
        /\ req[r].pc = "rsw_sleep"
        /\ req[q].pc = "pending"
        /\ req[q].endpoint \in {"/scale/reading", "/scale/stable"}

\* C10 as claimed: while a stable read with a timeout still to run is polling
\* or sleeping, a waiting GET /totals/today can be started.
C10_NoStall ==
    \A r, q \in DOMAIN req :
        ( /\ req[r].endpoint = "/scale/stable"
          /\ req[r].timeout > 0
          /\ req[r].pc \in {"rsw_read", "rsw_sleep", "mock_sleep"}
          /\ req[q].endpoint = "/totals/today"
          /\ req[q].pc = "pending" )
        => ENABLED TotalsStart(q)

\* C12: an answered GET /scale/stable has exactly the response its outcome
\* calls for: 503 without any poll or read_stable_weight call when there is
\* no scale; 408 when read_stable_weight returned None; otherwise 200 with
\* the returned reading's value, unit and is_stable.
C12_StableOutcomes ==
    \A r \in AnyStable :
        req[r].pc = "done" =>
            /\ scale = None =>
                 /\ req[r].response = [status |-> 503, detail |-> "Scale not available"]
                 /\ req[r].polls = 0
                 /\ req[r].returned = NotCalled
            /\ (scale /= None /\ req[r].returned = Ret(None)) =>
                 req[r].response.status = 408
            /\ (scale /= None /\ req[r].returned /= Ret(None)) =>
                 /\ ~req[r].returned.exc
                 /\ req[r].response =
                      [status |-> 200,
                       value |-> req[r].returned.val.value,
                       unit |-> req[r].returned.val.unit,
                       is_stable |-> req[r].returned.val.is_stable]

C12_Witness ==
    \E r \in AnyStable :
        /\ req[r].pc = "done"
        /\ scale /= None
        /\ req[r].exit = "timeout"
        /\ req[r].returned = Ret(None)
        /\ req[r].response.status = 408

---------------------------------------------------------------------------
(* The entry store: weigh/logger_core.py on the tables of weigh/db.py *)

\* Rows the entries table may hold.
MaxEntries == 2

\* Latest wall-clock instant, in clock ticks.
MaxClock == 2

\* Clock ticks in one second.
TicksPerSecond == 2

\* datetime.now(): the local wall clock at the call.  It is not monotonic:
\* between two calls it may have advanced or been set back (end of daylight
\* saving time, a time-sync step, a clock restored after a power loss).
ClockReads == 0..MaxClock

\* datetime.isoformat(): the whole seconds, and the fraction when it is not
\* zero ("...T01:00:00" but "...T01:00:00.500000"); every field zero padded.
isoformat(t) ==
    IF t % TicksPerSecond = 0
    THEN <<t \div TicksPerSecond>>
    ELSE <<t \div TicksPerSecond, t % TicksPerSecond>>

\* SQLite's order of two TEXT timestamps: byte by byte, a proper prefix first.
TextLess(a, b) ==
    \/ a[1] < b[1]
    \/ /\ a[1] = b[1]
       /\ \/ Len(a) < Len(b)
          \/ Len(a) = 2 /\ Len(b) = 2 /\ a[2] < b[2]

TypeNames ==
    {"Produce", "Dairy", "Meat", "Frozen", "Bread", "Canned", "Dry Goods", "Other"}

DEFAULT_TYPES ==
    [n \in TypeNames |-> [requires_temp |-> n \in {"Dairy", "Meat", "Frozen"}]]

\* get_types_dict on the food_types table as init_default_data fills it.
get_types_dict == DEFAULT_TYPES

\* A temperature given by the caller, in hundredths of a degree.
Temp(hundredths) == [kind |-> "float", hundredths |-> hundredths]

\* Arguments of log_entry the model draws: a type without and one with the
\* temperature requirement and one the table does not know, each temperature
\* given or None.
LogTypes == {"Produce", "Dairy", "Juice"}

PickupTemps == {None, Temp(3800)}

DropoffTemps == {None, Temp(4000)}

Store(e, u) == [entries |-> e, undo_stack |-> u]

\* An entry id as a call returns it.
Id(n) == [kind |-> "int", n |-> n]

\* Variant: the undo_stack is left as it is.
ClearUndoStackKeep(stack) == stack

\* DELETE FROM undo_stack
ClearUndoStack(stack) == <<>>

\* log_entry: ValueError before any statement when a required temperature is
\* missing; else INSERT the entry (AUTOINCREMENT id, is_deleted DEFAULT 0)
\* stamped with the clock read t, and clear the undo_stack.
log_entry(store, type_, temp_pickup_f, temp_dropoff_f, t) ==
    LET types == get_types_dict
    IN  IF /\ type_ \in DOMAIN types
           /\ types[type_].requires_temp
           /\ (temp_pickup_f = None \/ temp_dropoff_f = None)
        THEN [result |-> Raised, store |-> store]
        ELSE LET entry_id == Len(store.entries) + 1
             IN  [result |-> Ret(Id(entry_id)),
                  store |-> Store(Append(store.entries,
                                         [id |-> entry_id,
                                          timestamp |-> isoformat(t),
                                          is_deleted |-> FALSE]),
                                  ClearUndoStack(store.undo_stack))]

\* Positions of rows whose timestamp no other row of the set exceeds:
\* ORDER BY timestamp DESC LIMIT 1 returns one of them, and SQL leaves open
\* which when several tie.
Latest(rows, among) ==
    { i \in among :
        \A j \in among : ~TextLess(rows[i].timestamp, rows[j].timestamp) }

\* Variant: WHERE is_deleted = 0 left out.
UndoCandidatesAll(rows) == DOMAIN rows

\* SELECT id FROM entries WHERE is_deleted = 0
UndoCandidates(rows) == { i \in DOMAIN rows : ~rows[i].is_deleted }

\* The rows undo_last_entry's SELECT may return.
UndoChoices(store) == Latest(store.entries, UndoCandidates(store.entries))

\* undo_last_entry once its SELECT returned the row at position pick (None:
\* no row): soft delete the entry and INSERT an 'undo' row stamped with the
\* clock read t.
undo_last_entry(store, pick, t) ==
    IF pick = None THEN [result |-> Ret(None), store |-> store]
    ELSE LET entry_id == store.entries[pick.row].id
         IN  [result |-> Ret(Id(entry_id)),
              store |-> Store(
                  [i \in DOMAIN store.entries |->
                     IF store.entries[i].id = entry_id
                     THEN [store.entries[i] EXCEPT !.is_deleted = TRUE]
                     ELSE store.entries[i]],
                  Append(store.undo_stack,
                         [entry_id |-> entry_id, operation |-> "undo",
                          timestamp |-> isoformat(t)]))]

\* SELECT entry_id FROM undo_stack WHERE operation = 'undo'
RedoCandidates(stack) == { i \in DOMAIN stack : stack[i].operation = "undo" }

\* The rows redo_last_entry's SELECT may return.
RedoChoices(store) == Latest(store.undo_stack, RedoCandidates(store.undo_stack))

KeepsRow(r, entry_id) == ~(r.entry_id = entry_id /\ r.operation = "undo")

\* redo_last_entry once its SELECT returned the row at position pick (None:
\* no row): restore the entry and DELETE its 'undo' rows.
redo_last_entry(store, pick) ==
    IF pick = None THEN [result |-> Ret(None), store |-> store]
    ELSE LET entry_id == store.undo_stack[pick.row].entry_id
         IN  [result |-> Ret(Id(entry_id)),
              store |-> Store(
                  [i \in DOMAIN store.entries |->
                     IF store.entries[i].id = entry_id
                     THEN [store.entries[i] EXCEPT !.is_deleted = FALSE]
                     ELSE store.entries[i]],
                  SelectSeq(store.undo_stack,
                            LAMBDA r : KeepsRow(r, entry_id)))]

\* A row the SELECT returned.
Row(i) == [kind |-> "row", row |-> i]

\* fetchone(): None when no row matches, else one of the rows.
Fetch(choices) == IF choices = {} THEN {None} ELSE { Row(i) : i \in choices }

\* POST /log: 400 when log_entry raises.  POST /undo and POST /redo: 404 when
\* the returned id is falsy.
Status(op, result) ==
    IF op = "log" THEN (IF result.exc THEN 400 ELSE 200)
    ELSE IF result.val = None THEN 404 ELSE 200

\* The record of a call: its name, the tables before it, its outcome.
Called(op, before, call) ==
    [kind |-> "op", op |-> op, before |-> before, result |-> call.result,
     status |-> Status(op, call.result)]

Current == Store(entries, undo_stack)

StoreInit ==
    /\ Init
    /\ hidEnv.use_mock_scale
    /\ scale /= None

\* POST /log
Log ==
    /\ Len(entries) < MaxEntries
    /\ \E type_ \in LogTypes, tp \in PickupTemps, td \in DropoffTemps,
          t \in ClockReads :
         LET call == log_entry(Current, type_, tp, td, t)
         IN  /\ entries' = call.store.entries
             /\ undo_stack' = call.store.undo_stack
             /\ opResult' = Called("log", Current, call)
             /\ run' = [NoRun EXCEPT !.since_log =
                                        IF call.result.exc THEN run.since_log
                                        ELSE TRUE]
    /\ UNCHANGED <<closing, hidEnv, scale, ctor, hidData, polled, now, req>>

\* POST /undo
Undo ==
    /\ \E pick \in Fetch(UndoChoices(Current)), t \in ClockReads :
         LET call == undo_last_entry(Current, pick, t)
         IN  /\ entries' = call.store.entries
             /\ undo_stack' = call.store.undo_stack
             /\ opResult' = Called("undo", Current, call)
             /\ run' =
                  IF call.result.val = None THEN NoRun
                  ELSE IF run.redone = <<>>
                  THEN [undone |-> Append(run.undone, call.result.val.n),
                        redone |-> <<>>,
                        snaps |-> Append(run.snaps, Current),
                        since_log |-> FALSE]
                  ELSE [undone |-> <<call.result.val.n>>,
                        redone |-> <<>>,
                        snaps |-> <<Current>>,
                        since_log |-> FALSE]
    /\ UNCHANGED <<closing, hidEnv, scale, ctor, hidData, polled, now, req>>

\* POST /redo
Redo ==
    /\ \E pick \in Fetch(RedoChoices(Current)) :
         LET call == redo_last_entry(Current, pick)
         IN  /\ entries' = call.store.entries
             /\ undo_stack' = call.store.undo_stack
             /\ opResult' = Called("redo", Current, call)
             /\ run' =
                  IF /\ call.result.val /= None
                     /\ Len(run.redone) < Len(run.undone)
                  THEN [run EXCEPT !.redone = Append(@, call.result.val.n)]
                  ELSE [NoRun EXCEPT !.since_log = run.since_log]
    /\ UNCHANGED <<closing, hidEnv, scale, ctor, hidData, polled, now, req>>

StoreNext == Log \/ Undo \/ Redo

SpecStore == StoreInit /\ [][StoreNext]_vars

---------------------------------------------------------------------------
(* Claims about the entry store, under SpecStore *)

\* C13 as claimed: after k undos that each returned an id and then k redos,
\* for every k the run allows, the redos returned the ids of the last k undos
\* in reverse order and the entries and the undo_stack are what they were
\* before the first of those undos; and an undo with no non-deleted entry, or
\* a redo with an empty undo_stack, returns None and changes nothing.
C13_UndoRedoInverse ==
    /\ LET n == Len(run.undone)
           k == Len(run.redone)
       IN  k > 0 =>
             /\ \A i \in 1..k : run.redone[i] = run.undone[n + 1 - i]
             /\ Current = run.snaps[n + 1 - k]
    /\ (opResult /= NotCalled /\ opResult.op = "undo"
          /\ UndoCandidates(opResult.before.entries) = {}) =>
            /\ opResult.result = Ret(None)
            /\ Current = opResult.before
    /\ (opResult /= NotCalled /\ opResult.op = "redo"
          /\ opResult.before.undo_stack = <<>>) =>
            /\ opResult.result = Ret(None)
            /\ Current = opResult.before

\* C14: from a successful log_entry until the next undo_last_entry the
\* undo_stack is empty, so a redo_last_entry in between returns None and
\* leaves the entries (the soft-deleted ones included) and the undo_stack as
\* they were; a log_entry that raised ValueError inserted nothing and left
\* the undo_stack untouched.
C14_LogClearsRedo ==
    /\ run.since_log => undo_stack = <<>>
    /\ (opResult /= NotCalled /\ opResult.op = "redo" /\ run.since_log) =>
            /\ opResult.result = Ret(None)
            /\ opResult.status = 404
            /\ Current = opResult.before
    /\ (opResult /= NotCalled /\ opResult.op = "log") =>
            IF opResult.result.exc
            THEN Current = opResult.before /\ opResult.status = 400
            ELSE /\ Len(entries) = Len(opResult.before.entries) + 1
                 /\ undo_stack = <<>>

C14_Witness ==
    /\ opResult /= NotCalled
    /\ opResult.op = "redo"
    /\ run.since_log
    /\ opResult.result = Ret(None)
    /\ \E i \in DOMAIN entries : entries[i].is_deleted
    /\ \E i \in DOMAIN entries : ~entries[i].is_deleted

\* C15: every entry_id in the undo_stack is the id of an existing entry that
\* is soft-deleted, no entry_id is there twice, and the entry a redo restored
\* was soft-deleted when the redo was called.
C15_StackRefersToDeleted ==
    /\ \A i \in DOMAIN undo_stack :
         \E e \in DOMAIN entries :
            /\ entries[e].id = undo_stack[i].entry_id
            /\ entries[e].is_deleted
    /\ \A i, j \in DOMAIN undo_stack :
         undo_stack[i].entry_id = undo_stack[j].entry_id => i = j
    /\ (opResult /= NotCalled /\ opResult.op = "redo"
          /\ opResult.result /= Ret(None)) =>
            \E e \in DOMAIN opResult.before.entries :
               /\ opResult.before.entries[e].id = opResult.result.val.n
               /\ opResult.before.entries[e].is_deleted

C15_Witness ==
    /\ opResult /= NotCalled
    /\ opResult.op = "redo"
    /\ opResult.result /= Ret(None)
    /\ Len(undo_stack) >= 1
    /\ \E e \in DOMAIN entries : ~entries[e].is_deleted
===========================================================================
